---- MODULE Spec2Model ----
(***************************************************************************)
(* Model of dupe-d (src/main.go): a one-shot command line pipeline         *)
(*   cobra argument check -> getFolderPath -> formatExtensions ->          *)
(*   processFiles (filepath.WalkDir + hashFile + os.Stat) -> writeToCsv    *)
(*   -> main prints the error, if any, and returns.                        *)
(*                                                                         *)
(* Strings are sequences of one-character strings, so that splitting,      *)
(* trimming, prefix tests and filepath.Ext are computed character by       *)
(* character.  The file system, the disk and the other processes are the   *)
(* environment: the result of every system call is chosen when it is made. *)
(***************************************************************************)
EXTENDS Integers, Sequences, FiniteSets, TLC

\* ------------------------------------------------------------------------
\* Bounds of the model
\* ------------------------------------------------------------------------
\* most characters in all raw --ext tokens of one invocation together
MaxRawLen == 4
\* most raw --ext tokens in one invocation
MaxToks == 2
\* longest path handed to matchesExtension in the function-level check
MaxPathLen == 3
\* most characters in all filter entries together, and most filter entries,
\* in the function-level check
MaxFilterLen == 2
MaxFilter == 2
\* largest file content, in bytes
MaxSize == 2
\* most modifications another process makes to a file while it is scanned
MaxMods == 1
\* rows the csv writer's buffer holds before it has to flush to the file
BufRows == 2

\* ------------------------------------------------------------------------
\* Strings
\* ------------------------------------------------------------------------
StrsUpTo(alphabet, n) == UNION {[1..k -> alphabet] : k \in 0..n}

\* the sequences of at most n strings over the alphabet that have at most
\* budget characters together
RECURSIVE StrSeqsUpTo(_, _, _)
StrSeqsUpTo(alphabet, n, budget) ==
  IF n = 0 THEN {<<>>}
  ELSE {<<>>} \cup
       UNION { { <<t>> \o r : r \in StrSeqsUpTo(alphabet, n-1, budget - Len(t)) }
               : t \in StrsUpTo(alphabet, budget) }

\* unicode.IsSpace restricted to the characters of the model
IsSpace(c) == c \in {" ", "\t"}

\* strings.Index(s, ","): position of the first comma, 0 when there is none
IndexComma(s) ==
  IF \E i \in 1..Len(s) : s[i] = ","
    THEN CHOOSE i \in 1..Len(s) : s[i] = "," /\ \A j \in 1..(i-1) : s[j] # ","
    ELSE 0

\* strings.Split(s, ","): cut at the first comma, repeat on the rest
RECURSIVE Split(_)
Split(s) ==
  LET m == IndexComma(s)
  IN  IF m = 0 THEN <<s>>
      ELSE <<SubSeq(s, 1, m-1)>> \o Split(SubSeq(s, m+1, Len(s)))

RECURSIVE TrimLeft(_)
TrimLeft(s) ==
  IF s # <<>> /\ IsSpace(Head(s)) THEN TrimLeft(Tail(s)) ELSE s

RECURSIVE TrimRight(_)
TrimRight(s) ==
  IF s # <<>> /\ IsSpace(s[Len(s)]) THEN TrimRight(SubSeq(s, 1, Len(s)-1)) ELSE s

\* a TrimSpace that forgets the trailing white space
TrimSpaceLeftOnly(s) == TrimLeft(s)

\* strings.TrimSpace
TrimSpace(s) == TrimRight(TrimLeft(s))

\* a prefix test that never finds the dot
HasPrefixDotNever(s) == FALSE

\* strings.HasPrefix(s, ".")
HasPrefixDot(s) == Len(s) >= 1 /\ s[1] = "."

\* ------------------------------------------------------------------------
\* formatExtensions (main.go:97-119)
\* ------------------------------------------------------------------------
\* the inner loop over the sub-tokens of one raw token
RECURSIVE FormatSplitExts(_, _)
FormatSplitExts(splitExts, formattedExts) ==
  IF splitExts = <<>> THEN formattedExts
  ELSE LET splitExt == TrimSpace(Head(splitExts))
       IN  IF splitExt = <<>>
             THEN FormatSplitExts(Tail(splitExts), formattedExts)
             ELSE FormatSplitExts(Tail(splitExts),
                    Append(formattedExts,
                           IF HasPrefixDot(splitExt) THEN splitExt
                                                     ELSE <<".">> \o splitExt))

\* the outer loop over the raw tokens
RECURSIVE FormatRawExts(_, _)
FormatRawExts(rawExts, formattedExts) ==
  IF rawExts = <<>> THEN formattedExts
  ELSE FormatRawExts(Tail(rawExts),
                     FormatSplitExts(Split(Head(rawExts)), formattedExts))

formatExtensions(rawExts) == FormatRawExts(rawExts, <<>>)

\* ------------------------------------------------------------------------
\* matchesExtension (main.go:237-250) and filepath.Ext
\* ------------------------------------------------------------------------
IsPathSeparator(c) == c = "/"

\* filepath.Ext: scan backwards from the end, stop at a path separator
RECURSIVE ExtScan(_, _)
ExtScan(path, i) ==
  IF i < 1 \/ IsPathSeparator(path[i]) THEN <<>>
  ELSE IF path[i] = "." THEN SubSeq(path, i, Len(path))
  ELSE ExtScan(path, i-1)

Ext(path) == ExtScan(path, Len(path))

\* the loop over the filter entries
RECURSIVE AnyEqual(_, _)
AnyEqual(ext, exts) ==
  IF exts = <<>> THEN FALSE
  ELSE IF ext = Head(exts) THEN TRUE
  ELSE AnyEqual(ext, Tail(exts))

\* a matchesExtension that gives up after the first filter entry
matchesExtensionFirstOnly(path, exts) ==
  IF Len(exts) = 0 THEN TRUE ELSE Ext(path) = Head(exts)

matchesExtension(path, exts) ==
  IF Len(exts) = 0 THEN TRUE ELSE AnyEqual(Ext(path), exts)

\* ------------------------------------------------------------------------
\* The environment of a run
\* ------------------------------------------------------------------------
\* the directory named on the command line and the working directory
ArgDir == <<"r">>
WorkDir == <<"/", "w">>

\* the entries the walk can meet, by path relative to the root, in the
\* lexical depth-first order of filepath.WalkDir; entry 1 is the root
RelNames ==
  << <<>>,
     <<"a", ".", "j">>,
     <<"b", ".", "J">>,
     <<"b", ".", "J", "/", "c">> >>

NumEntries == Len(RelNames)

\* the directory an entry lies in (0 for the root)
ParentOf == <<0, 1, 1, 3>>

\* what the entry is: a directory, a regular file, a symbolic link to a
\* regular file, a symbolic link to a directory
Kinds == {"dir", "file", "linkFile", "linkDir"}

\* the --ext tokens of a run
RawExtChoices ==
  { <<>>,
    << <<"j">> >>,
    << <<" ", ".", "J", ",", "j">>, <<",">> >> }

\* file contents are told apart by their length only
Bytes == {0}
Contents == StrsUpTo(Bytes, MaxSize)

\* sha256 as an injective digest of the content
Sha256(content) == <<"sha256", content>>

PathOf(root, i) ==
  IF RelNames[i] = <<>> THEN root ELSE root \o <<"/">> \o RelNames[i]

\* FileInfo.Name() of os.Stat(path): the last element of the path
RECURSIVE BaseScan(_, _)
BaseScan(path, i) ==
  IF i < 1 \/ IsPathSeparator(path[i]) THEN SubSeq(path, i+1, Len(path))
  ELSE BaseScan(path, i-1)

BaseName(path) == BaseScan(path, Len(path))

\* ------------------------------------------------------------------------
\* The report rows (main.go:207-221)
\* ------------------------------------------------------------------------
BytesPerMB == 1048576

Header == <<"Name", "Path", "Size (MB)", "Hash">>

\* fmt.Sprintf("%.2f", size / 1048576.0): the digits before the point and
\* the two after it, rounded half to even
SizeInMB(size) ==
  LET q == (size * 100) \div BytesPerMB
      r == (size * 100) % BytesPerMB
      h == IF 2 * r > BytesPerMB \/ (2 * r = BytesPerMB /\ q % 2 = 1)
             THEN q + 1 ELSE q
  IN  <<h \div 100, (h % 100) \div 10, h % 10>>

Row(info) == <<info.Name, info.Path, SizeInMB(info.Size), info.Hash>>

RECURSIVE Rows(_)
Rows(infos) ==
  IF infos = <<>> THEN <<>> ELSE <<Row(Head(infos))>> \o Rows(Tail(infos))

\* ------------------------------------------------------------------------
\* State
\* ------------------------------------------------------------------------
VARIABLES
  pc,                  \* where the run is
  nargs,               \* number of positional arguments
  extensions,          \* the global bound to --ext (main.go:18)
  formattedExtensions, \* RunE's formattedExtensions / the exts parameter
  folderPath,          \* RunE's folderPath
  err,                 \* the error rootCmd.Execute returns, "nil" if none
  idx,                 \* the entry the walk visited last, 0 before the root
  dirs,                \* the entries the walk found to be directories
  fs,                  \* what the walk found each entry to be
  files,               \* processFiles' files
  cbErr,               \* the error the walk callback returned, "nil" if none
  ioFault,             \* the first system call of the scan that failed
  curContent,          \* the content of the file between hashFile and os.Stat
  curHash,             \* the digest hashFile returned for it
  mods,                \* modifications by other processes so far
  hashedFilesInfo,     \* what processFiles returned to RunE
  stdout,              \* lines printed to standard output
  stderr,              \* lines printed to standard error
  exitStatus,          \* exit status of the process, Running until it ends
  outCreated,          \* the output file exists
  outFile,             \* the rows that reached the output file
  buf,                 \* the rows held in the csv writer's buffer
  bufErr,              \* the buffered writer's sticky error
  diskFault,           \* a write to the output file failed
  row,                 \* index of the next record writeToCsv writes
  reformatted,         \* formatExtensions applied to its own result
  mPath,               \* the path given to matchesExtension
  matched              \* the result of matchesExtension

scanVars == <<idx, dirs, fs, files, cbErr, ioFault, curContent, curHash, mods,
              hashedFilesInfo>>
csvVars == <<outCreated, outFile, buf, bufErr, diskFault, row>>
fnVars == <<reformatted, mPath, matched>>
vars == <<pc, nargs, extensions, formattedExtensions, folderPath, err,
          scanVars, stdout, stderr, exitStatus, csvVars, fnVars>>

NoPath == <<>>

\* the exit status of a process that has not ended
Running == 0 - 1

\* everything but pc, nargs, extensions, formattedExtensions, mPath
Fresh ==
  /\ folderPath = NoPath
  /\ err = "nil"
  /\ idx = 0
  /\ dirs = {0}
  /\ fs = [i \in 1..NumEntries |-> "unseen"]
  /\ files = <<>>
  /\ cbErr = "nil"
  /\ ioFault = "none"
  /\ curContent = <<>>
  /\ curHash = <<>>
  /\ mods = 0
  /\ hashedFilesInfo = <<>>
  /\ stdout = <<>>
  /\ stderr = <<>>
  /\ exitStatus = Running
  /\ outCreated = FALSE
  /\ outFile = <<>>
  /\ buf = <<>>
  /\ bufErr = FALSE
  /\ diskFault = FALSE
  /\ row = 1
  /\ reformatted = <<>>
  /\ matched = FALSE

Init ==
  /\ pc = "args"
  /\ nargs \in 0..2
  /\ extensions \in RawExtChoices
  /\ formattedExtensions = <<>>
  /\ mPath = <<>>
  /\ Fresh

\* ------------------------------------------------------------------------
\* The run
\* ------------------------------------------------------------------------
\* cobra.MaximumNArgs(1) (main.go:37): RunE is not entered with two arguments
CobraArgs ==
  /\ pc = "args"
  /\ IF nargs > 1
       THEN err' = "InvalidArguments" /\ pc' = "main"
       ELSE err' = err /\ pc' = "resolve"
  /\ UNCHANGED <<nargs, extensions, formattedExtensions, folderPath, scanVars,
                 stdout, stderr, exitStatus, csvVars, fnVars>>

\* getFolderPath and validateDirectory (main.go:71-95); st is what os.Stat
\* finds at the argument, or whether os.Getwd succeeds
GetFolderPath(st) ==
  /\ pc = "resolve"
  /\ IF nargs > 0
       THEN CASE st = "err"  -> err' = "PathNotAccessible" /\ pc' = "main"
                                /\ UNCHANGED folderPath
              [] st = "file" -> err' = "NotADirectory" /\ pc' = "main"
                                /\ UNCHANGED folderPath
              [] OTHER       -> folderPath' = ArgDir /\ pc' = "format"
                                /\ UNCHANGED err
       ELSE IF st = "err"
              THEN err' = "WorkingDirectoryUnavailable" /\ pc' = "main"
                   /\ UNCHANGED folderPath
              ELSE folderPath' = WorkDir /\ pc' = "format" /\ UNCHANGED err
  /\ UNCHANGED <<nargs, extensions, formattedExtensions, scanVars,
                 stdout, stderr, exitStatus, csvVars, fnVars>>

\* RunE, main.go:45
RunEFormat ==
  /\ pc = "format"
  /\ formattedExtensions' = formatExtensions(extensions)
  /\ pc' = "begin"
  /\ UNCHANGED <<nargs, extensions, folderPath, err, scanVars,
                 stdout, stderr, exitStatus, csvVars, fnVars>>

\* processFiles up to the walk (main.go:121-129)
ProcessFilesBegin ==
  /\ pc = "begin"
  /\ stdout' = stdout \o
       << <<"Scanning folder: ", folderPath>>,
          IF Len(formattedExtensions) > 0
            THEN <<"Filtering by extensions: ", formattedExtensions>>
            ELSE <<"Processing all file types">> >>
  /\ files' = <<>>
  /\ pc' = "walk"
  /\ UNCHANGED <<nargs, extensions, formattedExtensions, folderPath, err,
                 idx, dirs, fs, cbErr, ioFault, curContent, curHash, mods,
                 hashedFilesInfo, stderr, exitStatus, csvVars, fnVars>>

\* the entries filepath.WalkDir can hand to the callback next: with an error,
\* the root it cannot lstat or the directory it has just visited and cannot
\* read; without one, a later entry of a directory it has visited.  The
\* root was found to be a directory by getFolderPath, which follows symbolic
\* links, while the walk does not.
CanVisit(i, kind, werr) ==
  IF werr
    THEN (idx = 0 /\ i = 1) \/ (idx >= 1 /\ i = idx /\ idx \in dirs)
    ELSE /\ i > idx
         /\ ParentOf[i] \in dirs
         /\ (idx = 0 => i = 1)
         /\ (i = 1 => kind \in {"dir", "linkDir"})

\* a callback that swallows the errors of hashFile and goes on to the next entry
WalkDirFnSkipErrors(i, kind, werr, hres, c) ==
  /\ pc = "walk"
  /\ cbErr = "nil"
  /\ CanVisit(i, kind, werr)
  /\ idx' = i
  /\ IF werr
       THEN /\ cbErr' = "ScanFailure"
            /\ ioFault' = "walk"
            /\ UNCHANGED <<pc, dirs, fs, stdout, curContent, curHash>>
       ELSE /\ fs' = [fs EXCEPT ![i] = kind]
            /\ IF kind = "dir"
                 THEN /\ dirs' = dirs \cup {i}
                      /\ UNCHANGED <<pc, cbErr, ioFault, stdout, curContent, curHash>>
                 ELSE /\ UNCHANGED dirs
                      /\ IF matchesExtension(PathOf(folderPath, i), formattedExtensions)
                           THEN /\ stdout' = Append(stdout,
                                       <<"Processing: ", PathOf(folderPath, i)>>)
                                /\ IF hres # "ok"
                                     THEN /\ ioFault' = hres
                                          /\ UNCHANGED <<pc, cbErr, curContent, curHash>>
                                     ELSE /\ kind # "linkDir"
                                          /\ curContent' = c
                                          /\ curHash' = Sha256(c)
                                          /\ pc' = "stat"
                                          /\ UNCHANGED <<cbErr, ioFault>>
                           ELSE UNCHANGED <<pc, cbErr, ioFault, stdout,
                                            curContent, curHash>>
  /\ UNCHANGED <<nargs, extensions, formattedExtensions, folderPath, err,
                 files, mods, hashedFilesInfo, stderr, exitStatus, csvVars, fnVars>>

\* the callback of filepath.WalkDir up to and including hashFile
\* (main.go:131-147, 174-191).  i is the entry, kind what lstat says it is,
\* werr whether the walk itself reports an error for it, hres what hashFile
\* meets (an open error, a read error, or success) and c the content it
\* streams.  WalkDir
\* makes no further call once the callback has returned an error.
WalkDirFn(i, kind, werr, hres, c) ==
  /\ pc = "walk"
  /\ cbErr = "nil"
  /\ CanVisit(i, kind, werr)
  /\ idx' = i
  /\ IF werr
       THEN /\ cbErr' = "ScanFailure"
            /\ ioFault' = "walk"
            /\ UNCHANGED <<pc, dirs, fs, stdout, curContent, curHash>>
       ELSE /\ fs' = [fs EXCEPT ![i] = kind]
            /\ IF kind = "dir"
                 THEN /\ dirs' = dirs \cup {i}
                      /\ UNCHANGED <<pc, cbErr, ioFault, stdout, curContent, curHash>>
                 ELSE /\ UNCHANGED dirs
                      /\ IF matchesExtension(PathOf(folderPath, i), formattedExtensions)
                           THEN /\ stdout' = Append(stdout,
                                       <<"Processing: ", PathOf(folderPath, i)>>)
                                /\ IF hres # "ok"
                                     THEN /\ cbErr' = "ScanFailure"
                                          /\ ioFault' = hres
                                          /\ UNCHANGED <<pc, curContent, curHash>>
                                     ELSE /\ kind # "linkDir"
                                          /\ curContent' = c
                                          /\ curHash' = Sha256(c)
                                          /\ pc' = "stat"
                                          /\ UNCHANGED <<cbErr, ioFault>>
                           ELSE UNCHANGED <<pc, cbErr, ioFault, stdout,
                                            curContent, curHash>>
  /\ UNCHANGED <<nargs, extensions, formattedExtensions, folderPath, err,
                 files, mods, hashedFilesInfo, stderr, exitStatus, csvVars, fnVars>>

\* another process rewrites the file after hashFile has closed it and before
\* os.Stat looks at it (main.go:144-149)
ExternalModify(c) ==
  /\ pc = "stat"
  /\ mods < MaxMods
  /\ c # curContent
  /\ curContent' = c
  /\ mods' = mods + 1
  /\ UNCHANGED <<pc, nargs, extensions, formattedExtensions, folderPath, err,
                 idx, dirs, fs, files, cbErr, ioFault, curHash,
                 hashedFilesInfo, stdout, stderr, exitStatus, csvVars, fnVars>>

\* the rest of the callback: os.Stat and the append (main.go:149-164)
WalkDirFnStat(ok) ==
  /\ pc = "stat"
  /\ pc' = "walk"
  /\ IF ok
       THEN /\ files' = Append(files,
                 [Name |-> BaseName(PathOf(folderPath, idx)),
                  Path |-> PathOf(folderPath, idx),
                  Size |-> Len(curContent),
                  Hash |-> curHash])
            /\ UNCHANGED <<cbErr, ioFault>>
       ELSE /\ cbErr' = "ScanFailure"
            /\ ioFault' = "stat"
            /\ UNCHANGED files
  /\ UNCHANGED <<nargs, extensions, formattedExtensions, folderPath, err,
                 idx, dirs, fs, curContent, curHash, mods,
                 hashedFilesInfo, stdout, stderr, exitStatus, csvVars, fnVars>>

\* a return of processFiles after which RunE goes on whatever the error
ProcessFilesReturnIgnoreErr ==
  /\ pc = "walk"
  /\ idx >= 1
  /\ hashedFilesInfo' = files
  /\ pc' = "create"
  /\ UNCHANGED <<nargs, extensions, formattedExtensions, folderPath, err,
                 idx, dirs, fs, files, cbErr, ioFault, curContent, curHash, mods,
                 stdout, stderr, exitStatus, csvVars, fnVars>>

\* WalkDir returns (after an error of the callback, or when the tree has no
\* further entry), processFiles returns and RunE checks the error
\* (main.go:165-171, 47-50)
ProcessFilesReturn ==
  /\ pc = "walk"
  /\ idx >= 1
  /\ IF cbErr # "nil"
       THEN hashedFilesInfo' = <<>> /\ err' = cbErr /\ pc' = "main"
       ELSE hashedFilesInfo' = files /\ err' = err /\ pc' = "create"
  /\ UNCHANGED <<nargs, extensions, formattedExtensions, folderPath,
                 idx, dirs, fs, files, cbErr, ioFault, curContent, curHash, mods,
                 stdout, stderr, exitStatus, csvVars, fnVars>>

\* ------------------------------------------------------------------------
\* writeToCsv (main.go:193-235)
\* ------------------------------------------------------------------------
\* csv.Writer.Write on the buffered writer: the row goes to the buffer; only
\* when the buffer is full is it first written out to the file, and only
\* then can the call fail (ok: whether that write to the file succeeds)
BufferedWrite(r, ok) ==
  IF Len(buf) < BufRows
    THEN buf' = Append(buf, r) /\ UNCHANGED <<outFile, bufErr, diskFault>>
    ELSE IF ok
           THEN outFile' = outFile \o buf /\ buf' = <<r>>
                /\ UNCHANGED <<bufErr, diskFault>>
           ELSE bufErr' = TRUE /\ diskFault' = TRUE /\ UNCHANGED <<outFile, buf>>

WriteReturnsError(ok) == Len(buf) >= BufRows /\ ~ok

\* os.Create and csv.NewWriter (main.go:195-205)
CsvCreate(ok) ==
  /\ pc = "create"
  /\ IF ok
       THEN /\ outCreated' = TRUE
            /\ outFile' = <<>>
            /\ buf' = <<>>
            /\ pc' = "header"
            /\ UNCHANGED err
       ELSE /\ err' = "ReportWriteFailure"
            /\ pc' = "main"
            /\ UNCHANGED <<outCreated, outFile, buf>>
  /\ UNCHANGED <<nargs, extensions, formattedExtensions, folderPath, scanVars,
                 stdout, stderr, exitStatus, bufErr, diskFault, row, fnVars>>

\* the header row (main.go:207-210)
CsvWriteHeader(ok) ==
  /\ pc = "header"
  /\ BufferedWrite(Header, ok)
  /\ IF WriteReturnsError(ok)
       THEN err' = "ReportWriteFailure" /\ pc' = "main"
       ELSE err' = err /\ pc' = "rows"
  /\ row' = 1
  /\ UNCHANGED <<nargs, extensions, formattedExtensions, folderPath, scanVars,
                 stdout, stderr, exitStatus, outCreated, fnVars>>

\* one iteration of the loop over the records (main.go:212-225)
CsvWriteRow(ok) ==
  /\ pc = "rows"
  /\ row <= Len(hashedFilesInfo)
  /\ BufferedWrite(Row(hashedFilesInfo[row]), ok)
  /\ IF WriteReturnsError(ok)
       THEN err' = "ReportWriteFailure" /\ pc' = "main" /\ UNCHANGED row
       ELSE err' = err /\ pc' = "rows" /\ row' = row + 1
  /\ UNCHANGED <<nargs, extensions, formattedExtensions, folderPath, scanVars,
                 stdout, stderr, exitStatus, outCreated, fnVars>>

\* after the loop (main.go:227-234): the line on standard output, return nil,
\* and then the deferred writer.Flush() and file.Close() (main.go:205, 202),
\* whose results nobody looks at (ok: whether the flush reaches the file)
CsvFinish(ok) ==
  /\ pc = "rows"
  /\ row > Len(hashedFilesInfo)
  /\ stdout' = Append(stdout, <<"Output written to: ">>)
  /\ IF buf = <<>>
       THEN UNCHANGED <<outFile, buf, bufErr, diskFault>>
       ELSE IF ok
              THEN outFile' = outFile \o buf /\ buf' = <<>>
                   /\ UNCHANGED <<bufErr, diskFault>>
              ELSE bufErr' = TRUE /\ diskFault' = TRUE /\ UNCHANGED <<outFile, buf>>
  /\ pc' = "main"
  /\ UNCHANGED <<nargs, extensions, formattedExtensions, folderPath, err,
                 scanVars, stderr, exitStatus, outCreated, row, fnVars>>

\* main (main.go:65-69): print the error, if any, and return from main; a Go
\* program whose main returns ends with exit status 0
Main ==
  /\ pc = "main"
  /\ stderr' = IF err # "nil" THEN Append(stderr, <<"Error: ", err>>) ELSE stderr
  /\ exitStatus' = 0
  /\ pc' = "done"
  /\ UNCHANGED <<nargs, extensions, formattedExtensions, folderPath, err,
                 scanVars, stdout, csvVars, fnVars>>

Next ==
  \/ CobraArgs
  \/ \E st \in {"err", "file", "dir"} : GetFolderPath(st)
  \/ RunEFormat
  \/ ProcessFilesBegin
  \/ \E i \in 1..NumEntries, kind \in Kinds, werr \in BOOLEAN,
        hres \in {"open", "read", "ok"}, c \in Contents :
          WalkDirFn(i, kind, werr, hres, c)
  \/ \E c \in Contents : ExternalModify(c)
  \/ \E ok \in BOOLEAN : WalkDirFnStat(ok)
  \/ ProcessFilesReturn
  \/ \E ok \in BOOLEAN : CsvCreate(ok)
  \/ \E ok \in BOOLEAN : CsvWriteHeader(ok)
  \/ \E ok \in BOOLEAN : CsvWriteRow(ok)
  \/ \E ok \in BOOLEAN : CsvFinish(ok)
  \/ Main

Spec == Init /\ [][Next]_vars

\* ------------------------------------------------------------------------
\* formatExtensions on its own: every token list within the bounds
\* ------------------------------------------------------------------------
FmtAlphabet == {"j", ".", ",", " "}

InitFmt ==
  /\ pc = "fmt"
  /\ nargs = 0
  /\ extensions \in StrSeqsUpTo(FmtAlphabet, MaxToks, MaxRawLen)
  /\ formattedExtensions = <<>>
  /\ mPath = <<>>
  /\ Fresh

FmtOnce ==
  /\ pc = "fmt"
  /\ formattedExtensions' = formatExtensions(extensions)
  /\ pc' = "fmt1"
  /\ UNCHANGED <<nargs, extensions, folderPath, err, scanVars,
                 stdout, stderr, exitStatus, csvVars, fnVars>>

FmtTwice ==
  /\ pc = "fmt1"
  /\ reformatted' = formatExtensions(formattedExtensions)
  /\ pc' = "fmt2"
  /\ UNCHANGED <<nargs, extensions, formattedExtensions, folderPath, err,
                 scanVars, stdout, stderr, exitStatus, csvVars, mPath, matched>>

NextFmt == FmtOnce \/ FmtTwice

SpecFmt == InitFmt /\ [][NextFmt]_vars

\* ------------------------------------------------------------------------
\* matchesExtension on its own: every path and filter within the bounds
\* ------------------------------------------------------------------------
PathAlphabet == {"j", "J", ".", "/"}
ExtAlphabet == {"j", "J", "."}

InitMatch ==
  /\ pc = "match"
  /\ nargs = 0
  /\ extensions = <<>>
  /\ formattedExtensions \in StrSeqsUpTo(ExtAlphabet, MaxFilter, MaxFilterLen)
  /\ mPath \in StrsUpTo(PathAlphabet, MaxPathLen)
  /\ Fresh

MatchStep ==
  /\ pc = "match"
  /\ matched' = matchesExtension(mPath, formattedExtensions)
  /\ pc' = "matched"
  /\ UNCHANGED <<nargs, extensions, formattedExtensions, folderPath, err,
                 scanVars, stdout, stderr, exitStatus, csvVars, reformatted, mPath>>

NextMatch == MatchStep

SpecMatch == InitMatch /\ [][NextMatch]_vars

\* ------------------------------------------------------------------------
\* Properties
\* ------------------------------------------------------------------------
MaxOf(S) == CHOOSE x \in S : \A y \in S : y <= x
MinOf(S) == CHOOSE x \in S : \A y \in S : x <= y

Printed(line) == \E k \in 1..Len(stdout) : stdout[k] = line

ResolutionErrors ==
  {"PathNotAccessible", "NotADirectory", "WorkingDirectoryUnavailable"}

\* C1: whenever a stage of the run fails, the error is printed to standard
\* error and the process ends with a non-zero exit status; the exit status is
\* 0 only if every stage succeeded.
C1_FailureExitsNonZero ==
  pc = "done" =>
    /\ (err # "nil" => Len(stderr) > 0 /\ exitStatus # 0)
    /\ (exitStatus = 0 => err = "nil")

\* C2: the output file is created only after the directory has been resolved
\* and the whole walk has completed without error; a run whose directory
\* resolution failed, or in which a system call of the scan failed, ends
\* with no output file.
C2_NoPartialReport ==
  /\ outCreated =>
       /\ folderPath # NoPath
       /\ idx >= 1
       /\ ioFault = "none"
       /\ pc \in {"header", "rows", "main", "done"}
  /\ (pc = "done" /\ (err \in ResolutionErrors \/ ioFault # "none")) => ~outCreated

C2_Witness ==
  /\ pc = "done"
  /\ ioFault \in {"open", "read", "stat"}
  /\ Len(files) >= 1
  /\ ~outCreated

\* the extension as the claim words it: the part of the base name from its
\* last dot on, empty when the base name has no dot
ExtAsSpecified(path) ==
  LET seps == {i \in 1..Len(path) : path[i] = "/"}
      base == IF seps = {} THEN path ELSE SubSeq(path, MaxOf(seps) + 1, Len(path))
      dots == {i \in 1..Len(base) : base[i] = "."}
  IN  IF dots = {} THEN <<>> ELSE SubSeq(base, MaxOf(dots), Len(base))

DotJpg == <<".", "j", "p", "g">>

\* C3: with a non-empty filter an entry is matched if and only if its
\* extension equals, case-sensitively, at least one filter entry; with an
\* empty filter every entry is matched.  Filter [".jpg"] over a.jpg, b.JPG,
\* c.png matches only a.jpg.
C3_ExtensionFilter ==
  /\ pc = "matched" =>
       (matched <=>
          \/ formattedExtensions = <<>>
          \/ \E k \in 1..Len(formattedExtensions) :
               formattedExtensions[k] = ExtAsSpecified(mPath))
  /\ matchesExtension(<<"a", ".", "j", "p", "g">>, <<DotJpg>>)
  /\ ~matchesExtension(<<"b", ".", "J", "P", "G">>, <<DotJpg>>)
  /\ ~matchesExtension(<<"c", ".", "p", "n", "g">>, <<DotJpg>>)

C3_Witness ==
  /\ pc = "matched"
  /\ matched
  /\ Len(formattedExtensions) = 2
  /\ formattedExtensions[1] # ExtAsSpecified(mPath)
  /\ formattedExtensions[2] = ExtAsSpecified(mPath)
  /\ \E i \in 1..Len(mPath) : mPath[i] = "/"

\* C4: every record of the scan is the record of a regular file: no
\* directory, and no other non-regular entry such as a symbolic link, is
\* recorded.
C4_OnlyRegularFiles ==
  \A k \in 1..Len(files) :
    \E i \in 1..NumEntries :
      PathOf(folderPath, i) = files[k].Path /\ fs[i] = "file"

\* C5: a failed write to the output file makes the run fail with a
\* ReportWriteFailure, and "Output written to:" is printed only when the
\* header and every row have been written to the output file.
C5_WriteFailuresSurfaced ==
  pc = "done" =>
    /\ (diskFault => err = "ReportWriteFailure")
    /\ (Printed(<<"Output written to: ">>) =>
          outFile = <<Header>> \o Rows(hashedFilesInfo))

\* C6: on a successful run the output file holds the header row followed by
\* one row per matched file, in the order of the walk, and nothing else.
C6_ReportContentAndOrder ==
  (pc = "done" /\ err = "nil") => outFile = <<Header>> \o Rows(files)

\* normalization as the claim words it
NonEmpty(s) == s # <<>>

SubTokens(tok) ==
  LET cuts == {0} \cup {i \in 1..Len(tok) : tok[i] = ","} \cup {Len(tok) + 1}
      cutAt(k) == CHOOSE c \in cuts : Cardinality({d \in cuts : d < c}) = k - 1
  IN  [k \in 1..(Cardinality(cuts) - 1) |->
         SubSeq(tok, cutAt(k) + 1, cutAt(k + 1) - 1)]

Trimmed(s) ==
  LET solid == {i \in 1..Len(s) : s[i] \notin {" ", "\t"}}
  IN  IF solid = {} THEN <<>> ELSE SubSeq(s, MinOf(solid), MaxOf(solid))

Canonical(tok) ==
  LET subs == SubTokens(tok)
      kept == SelectSeq([k \in 1..Len(subs) |-> Trimmed(subs[k])], NonEmpty)
  IN  [k \in 1..Len(kept) |->
         IF kept[k][1] = "." THEN kept[k] ELSE <<".">> \o kept[k]]

RECURSIVE Normalized(_)
Normalized(toks) ==
  IF toks = <<>> THEN <<>> ELSE Canonical(Head(toks)) \o Normalized(Tail(toks))

\* C7: formatExtensions returns the sub-tokens of every token (split on
\* commas), trimmed, without the empty ones, with a dot prepended where there
\* was none, in input order and with duplicates kept.
\* ["jpg", " .png, txt "] gives [".jpg", ".png", ".txt"]; [""] gives [].
C7_Normalization ==
  /\ pc \in {"fmt1", "fmt2"} => formattedExtensions = Normalized(extensions)
  /\ formatExtensions(<< <<"j", "p", "g">>,
                         <<" ", ".", "p", "n", "g", ",", " ", "t", "x", "t", " ">> >>)
       = << <<".", "j", "p", "g">>, <<".", "p", "n", "g">>, <<".", "t", "x", "t">> >>
  /\ formatExtensions(<< <<>> >>) = <<>>

C7_Witness ==
  /\ pc = "fmt1"
  /\ Len(extensions) = 2
  /\ \E i \in 1..Len(extensions[1]) : extensions[1][i] = ","
  /\ \E i \in 1..Len(extensions[1]) : extensions[1][i] = " "
  /\ Len(formattedExtensions) = 2
  /\ formattedExtensions[1] = formattedExtensions[2]

\* C8: formatting the formatted list again gives the same list.
C8_Idempotent ==
  pc = "fmt2" => reformatted = formattedExtensions

C8_Witness ==
  /\ pc = "fmt2"
  /\ Len(formattedExtensions) >= 2
  /\ formattedExtensions # extensions
  /\ \E k \in 1..Len(extensions) : HasPrefixDot(extensions[k])
  /\ reformatted = formattedExtensions

\* C9: once a system call of the scan has failed, nothing more is visited,
\* announced, hashed or recorded, and processFiles returns the error and no
\* records.
C9_AbortOnFirstError ==
  /\ [][ioFault # "none" =>
          /\ stdout' = stdout
          /\ files' = files
          /\ idx' = idx
          /\ curHash' = curHash
          /\ pc' \notin {"stat", "create"}]_vars
  /\ []((ioFault # "none" /\ pc \in {"main", "done"}) =>
          (hashedFilesInfo = <<>> /\ err = "ScanFailure"))

C9_Witness ==
  /\ pc = "done"
  /\ ioFault \in {"open", "read", "stat"}
  /\ idx < NumEntries
  /\ Len(files) >= 1
  /\ hashedFilesInfo = <<>>
  /\ err = "ScanFailure"

\* C10: the Size of every record is the byte count of the content that was
\* hashed to give its Hash, whatever other processes do to the file.
C10_SizeMatchesHashedContent ==
  \A k \in 1..Len(files) :
    \E c \in Contents : files[k].Hash = Sha256(c) /\ files[k].Size = Len(c)

====
